---- MODULE Spec2Model ----
(***************************************************************************)
(* A model of the mincaml front end: the type representation and the       *)
(* destructive unifier (type_check.rs), the type inferencer               *)
(* (type_check.rs), variable identity (var.rs) and the driver (main.rs).   *)
(*                                                                         *)
(* Four specifications share the module's variables:                       *)
(*   SpecUnify   sequences of new_tyvar / unify calls on one substitution  *)
(*   SpecTc      type_check of a program drawn from a bounded family       *)
(*   SpecVar     construction, comparison and hashing of variables         *)
(*   SpecDriver  main, repl, do_file and the stages of do_expr             *)
(***************************************************************************)
EXTENDS Integers, Sequences, FiniteSets, TLC

VARIABLES
    substs,      \* unifier: HashMap<TyVar, Type>, a function on its keys
    tyvar_cnt,   \* unifier: the fresh type variable counter
    call,        \* unifier: the last unify call: its arguments, their normal
                 \* forms on entry, and its outcome
    program,     \* inferencer: the expression handed to type_check
    tc,          \* inferencer: the outcome of type_check, or NotRun
    v1, v2,      \* variables: two Var values
    cmp,         \* variables: the outcome of v1 == v2 and of hashing both
    argc,        \* driver: number of command line arguments (with argv[0])
    pc,          \* driver: position in main / repl / do_file / do_expr
    ran,         \* driver: the stages started for the current input
    failed,      \* driver: the stage of the current input that failed
    out,         \* driver: what was printed, one entry per println
    inputs,      \* driver: number of inputs handed to do_expr so far
    retval,      \* driver: the value do_expr returned for the current input
    exit_code    \* driver: the process exit status, or Running

unify_vars == <<substs, tyvar_cnt, call>>
tc_vars == <<program, tc>>
var_vars == <<v1, v2, cmp>>
driver_vars == <<argc, pc, ran, failed, out, inputs, retval, exit_code>>
vars == <<substs, tyvar_cnt, call, program, tc, v1, v2, cmp,
          argc, pc, ran, failed, out, inputs, retval, exit_code>>

(***************************************************************************)
(* Bounds of the model.                                                    *)
(***************************************************************************)
\* type variables that new_tyvar may hand out in SpecUnify
MaxTyVars == 2
\* depth of nested unify calls after which the call is taken not to return
MaxRecursion == 10
\* unique tags 1 .. MaxUniq handed to the variable constructors
MaxUniq == 2
\* lines the repl reads before the model stops feeding it
MaxInputs == 3
\* command line arguments, argv[0] included
MaxArgc == 3

(***************************************************************************)
(* type_check.rs: enum Type.                                               *)
(***************************************************************************)
Type_Unit == [tag |-> "Unit"]
Type_Bool == [tag |-> "Bool"]
Type_Int == [tag |-> "Int"]
Type_Float == [tag |-> "Float"]
Type_Fun(args, ret) == [tag |-> "Fun", args |-> args, ret |-> ret]
Type_Tuple(elems) == [tag |-> "Tuple", elems |-> elems]
Type_Array(elem) == [tag |-> "Array", elem |-> elem]
Type_Var(tyvar) == [tag |-> "Var", tyvar |-> tyvar]

\* Option::None of HashMap::get
None == [tag |-> "None"]
\* the value of a loop that never returns
Diverges == [tag |-> "Diverges"]

\* HashMap::new, HashMap::get, HashMap::insert, HashMap::remove
EmptyMap == [k \in {} |-> None]
MapGet(m, k) == IF k \in DOMAIN m THEN m[k] ELSE None
MapInsert(m, k, val) == [x \in DOMAIN m \cup {k} |-> IF x = k THEN val ELSE m[x]]
MapRemove(m, k) == [x \in DOMAIN m \ {k} |-> m[x]]

(***************************************************************************)
(* norm_ty: follow Var links until a non-Var or an unbound Var.  The loop  *)
(* has no exit on a cycle of links: a walk that has followed one link per  *)
(* key of the map and stands on a bound Var again is on a cycle and never  *)
(* returns (Diverges).                                                     *)
(***************************************************************************)
RECURSIVE norm_ty_loop(_, _, _)
norm_ty_loop(subst, ty, steps) ==
    IF ty.tag = "Var"
    THEN IF MapGet(subst, ty.tyvar) = None
         THEN ty
         ELSE IF steps = 0
              THEN Diverges
              ELSE norm_ty_loop(subst, MapGet(subst, ty.tyvar), steps - 1)
    ELSE ty

norm_ty(subst, ty) == norm_ty_loop(subst, ty, Cardinality(DOMAIN subst))

(***************************************************************************)
(* deref_tyvar: the same walk from a type variable, the loop moving only   *)
(* along Var-to-Var links.                                                 *)
(***************************************************************************)
RECURSIVE deref_tyvar_loop(_, _, _)
deref_tyvar_loop(subst, tyvar, steps) ==
    LET got == MapGet(subst, tyvar) IN
    IF got = None THEN Type_Var(tyvar)
    ELSE IF got.tag = "Var"
         THEN IF steps = 0 THEN Diverges
              ELSE deref_tyvar_loop(subst, got.tyvar, steps - 1)
         ELSE got

deref_tyvar(subst, tyvar) ==
    deref_tyvar_loop(subst, tyvar, Cardinality(DOMAIN subst))

(***************************************************************************)
(* unify.  The result is the Result<(), TypeErr> together with the         *)
(* substitution as the call left it (the map is mutated in place, also on  *)
(* the way to an error).  res is "Ok", "Err", "Hang" (norm_ty never        *)
(* returns) or "Overflow" (unbounded recursion of unify).                  *)
(***************************************************************************)
UnifyOk(s) == [res |-> "Ok", substs |-> s]
UnifyError(s, ty1, ty2) ==
    [res |-> "Err", substs |-> s, err |-> [tag |-> "UnifyError", ty1 |-> ty1, ty2 |-> ty2]]
UnifyHang(s) == [res |-> "Hang", substs |-> s]
UnifyOverflow(s) == [res |-> "Overflow", substs |-> s]

IsBase(ty) == ty.tag \in {"Unit", "Bool", "Int", "Float"}

\* a Var arm that lost its second pattern: only a Var on the left is bound
unify_var_arm_left_only(s, ty1, ty2) ==
    IF ty1.tag = "Var"
    THEN UnifyOk(MapInsert(s, ty1.tyvar, ty2))
    ELSE UnifyError(s, ty1, ty2)

\* the arm (Type::Var(var), ty) | (ty, Type::Var(var))
unify_var_arm(s, ty1, ty2) ==
    IF ty1.tag = "Var"
    THEN UnifyOk(MapInsert(s, ty1.tyvar, ty2))
    ELSE UnifyOk(MapInsert(s, ty2.tyvar, ty1))

\* the length test left out: zip then stops at the shorter list
arity_differs_unchecked(args1, args2) == FALSE

\* the test `args1.len() != args2.len()` of the Fun and Tuple arms
arity_differs(args1, args2) == Len(args1) # Len(args2)

RECURSIVE unify_rec(_, _, _, _)
RECURSIVE unify_zip(_, _, _, _, _)

\* for (arg1, arg2) in args1.iter().zip(args2.iter()) { unify(..)?; }
unify_zip(s, args1, args2, i, fuel) ==
    IF i > Len(args1) \/ i > Len(args2)
    THEN UnifyOk(s)
    ELSE LET r == unify_rec(s, args1[i], args2[i], fuel) IN
         IF r.res # "Ok" THEN r
         ELSE unify_zip(r.substs, args1, args2, i + 1, fuel)

unify_rec(s, ty1_in, ty2_in, fuel) ==
    LET ty1 == norm_ty(s, ty1_in)
        ty2 == norm_ty(s, ty2_in)
    IN
    IF ty1 = Diverges \/ ty2 = Diverges THEN UnifyHang(s)
    ELSE IF fuel = 0 THEN UnifyOverflow(s)
    ELSE IF IsBase(ty1) /\ ty1.tag = ty2.tag THEN UnifyOk(s)
    ELSE IF ty1.tag = "Fun" /\ ty2.tag = "Fun"
         THEN IF arity_differs(ty1.args, ty2.args)
              THEN UnifyError(s, ty1, ty2)
              ELSE LET r == unify_zip(s, ty1.args, ty2.args, 1, fuel - 1) IN
                   IF r.res # "Ok" THEN r
                   ELSE unify_rec(r.substs, ty1.ret, ty2.ret, fuel - 1)
    ELSE IF ty1.tag = "Var" \/ ty2.tag = "Var"
         THEN unify_var_arm(s, ty1, ty2)
    ELSE IF ty1.tag = "Tuple" /\ ty2.tag = "Tuple"
         THEN IF arity_differs(ty1.elems, ty2.elems)
              THEN UnifyError(s, ty1, ty2)
              ELSE unify_zip(s, ty1.elems, ty2.elems, 1, fuel - 1)
    ELSE IF ty1.tag = "Array" /\ ty2.tag = "Array"
         THEN unify_rec(s, ty1.elem, ty2.elem, fuel - 1)
    ELSE UnifyError(s, ty1, ty2)

unify(s, ty1, ty2) == unify_rec(s, ty1, ty2, MaxRecursion)

\* new_tyvar: the Type::Var of the counter's value; the counter moves on
new_tyvar(cnt) == [ty |-> Type_Var(cnt), cnt |-> cnt + 1]

(***************************************************************************)
(* SpecUnify: the unifier driven as the unit tests drive it, by new_tyvar  *)
(* and unify on one substitution that starts empty.                        *)
(***************************************************************************)
\* the types over the variables handed out so far
Leaves(n) == {Type_Int, Type_Bool} \cup {Type_Var(a) : a \in 0 .. n - 1}
ComponentsOver(n) == {Type_Int} \cup {Type_Var(a) : a \in {0} \cap (0 .. n - 1)}
TypesOver(n) ==
    Leaves(n)
    \cup {Type_Fun(<<a>>, Type_Int) : a \in ComponentsOver(n)}
    \cup {Type_Fun(<<Type_Int, Type_Int>>, Type_Int)}
    \cup {Type_Tuple(<<a>>) : a \in ComponentsOver(n) \ {Type_Int}}
    \cup {Type_Tuple(<<Type_Int, Type_Bool>>)}
    \cup {Type_Array(a) : a \in ComponentsOver(n) \ {Type_Int}}

NoCall == [res |-> "None"]

IdleUnify == substs = EmptyMap /\ tyvar_cnt = 0 /\ call = NoCall
IdleTc == program = None /\ tc = None
IdleVar == v1 = None /\ v2 = None /\ cmp = None
IdleDriver ==
    /\ argc = 0 /\ pc = "idle" /\ ran = <<>> /\ failed = "none"
    /\ out = <<>> /\ inputs = 0 /\ retval = "none" /\ exit_code = "Running"

\* the set of programs is defined with SpecTc below
InitUnify == IdleUnify /\ IdleTc /\ IdleVar /\ IdleDriver

\* The caller goes on to a next call only after an Ok: a call that hung or
\* overflowed the stack never returns, and every caller of unify ends its
\* run on an Err (`?` in type_check_, unwrap in the tests).
Returned == call.res \in {"None", "Ok"}

NewTyVar ==
    /\ Returned
    /\ tyvar_cnt < MaxTyVars
    /\ tyvar_cnt' = new_tyvar(tyvar_cnt).cnt
    /\ UNCHANGED <<substs, call>>
    /\ UNCHANGED <<tc_vars, var_vars, driver_vars>>

Unify(ty1, ty2) ==
    /\ Returned
    /\ LET r == unify(substs, ty1, ty2) IN
       /\ substs' = r.substs
       /\ call' = [ty1 |-> ty1, ty2 |-> ty2, res |-> r.res,
                   err |-> IF r.res = "Err" THEN r.err ELSE None,
                   n1 |-> norm_ty(substs, ty1), n2 |-> norm_ty(substs, ty2)]
    /\ UNCHANGED tyvar_cnt
    /\ UNCHANGED <<tc_vars, var_vars, driver_vars>>

NextUnify ==
    \/ NewTyVar
    \/ \E ty1, ty2 \in TypesOver(tyvar_cnt) : Unify(ty1, ty2)

SpecUnify == InitUnify /\ [][NextUnify]_vars

(***************************************************************************)
(* parser's Expr, as type_check_ matches on it.                            *)
(***************************************************************************)
Expr_Unit == [tag |-> "Unit"]
Expr_Bool == [tag |-> "Bool"]
Expr_Int == [tag |-> "Int"]
Expr_Float == [tag |-> "Float"]
Expr_Not(e) == [tag |-> "Not", e |-> e]
Expr_Neg(e) == [tag |-> "Neg", e |-> e]
Expr_FNeg(e) == [tag |-> "FNeg", e |-> e]
Expr_Add(e1, e2) == [tag |-> "Add", e1 |-> e1, e2 |-> e2]
Expr_FAdd(e1, e2) == [tag |-> "FAdd", e1 |-> e1, e2 |-> e2]
Expr_Eq(e1, e2) == [tag |-> "Eq", e1 |-> e1, e2 |-> e2]
Expr_If(e1, e2, e3) == [tag |-> "If", e1 |-> e1, e2 |-> e2, e3 |-> e3]
Expr_Let(id, rhs, body) == [tag |-> "Let", id |-> id, rhs |-> rhs, body |-> body]
Expr_Var(var) == [tag |-> "Var", var |-> var]
Expr_LetRec(name, args, rhs, body) ==
    [tag |-> "LetRec", name |-> name, args |-> args, rhs |-> rhs, body |-> body]
Expr_App(fun, args) == [tag |-> "App", fun |-> fun, args |-> args]
Expr_Tuple(args) == [tag |-> "Tuple", args |-> args]
Expr_LetTuple(bndrs, rhs, body) ==
    [tag |-> "LetTuple", bndrs |-> bndrs, rhs |-> rhs, body |-> body]
Expr_Array(e1, e2) == [tag |-> "Array", e1 |-> e1, e2 |-> e2]
Expr_Get(e1, e2) == [tag |-> "Get", e1 |-> e1, e2 |-> e2]
Expr_Put(e1, e2, e3) == [tag |-> "Put", e1 |-> e1, e2 |-> e2, e3 |-> e3]

\* mk_type_env: the initial environment, print_int : Int -> Unit
mk_type_env == MapInsert(EmptyMap, "print_int", Type_Fun(<<Type_Int>>, Type_Unit))

(***************************************************************************)
(* type_check_.  The inferencer's mutable state st is the counter, the     *)
(* substitution and the environment; st.log records, for every let,        *)
(* let rec and tuple let that ran to its end, the names it introduced and  *)
(* the environment on entry and on exit.  A result is Ok with a type, Err  *)
(* with a TypeErr, or the Hang / Overflow of a unify call that never       *)
(* returns.                                                                *)
(***************************************************************************)
TcOk(ty, st) == [res |-> "Ok", ty |-> ty, st |-> st]
TcErr(err, st) == [res |-> "Err", err |-> err, st |-> st]
UnboundVar(var) == [tag |-> "UnboundVar", var |-> var]

\* unify(substs, &a, &b)? inside type_check_
tc_unify(st, a, b) ==
    LET r == unify(st.substs, a, b)
        st2 == [st EXCEPT !.substs = r.substs]
    IN IF r.res = "Err" THEN TcErr(r.err, st2)
       ELSE [res |-> r.res, ty |-> Type_Unit, st |-> st2]

\* new_tyvar(tyvar_cnt) n times: the variables cnt .. cnt + n - 1
new_tyvars(cnt, n) == [i \in 1 .. n |-> Type_Var(cnt + i - 1)]

\* for (name, ty) in names.iter().zip(tys.iter()) { env.insert(name, ty) }
RECURSIVE env_insert_all(_, _, _, _)
env_insert_all(env, names, tys, i) ==
    IF i > Len(names) \/ i > Len(tys) THEN env
    ELSE env_insert_all(MapInsert(env, names[i], tys[i]), names, tys, i + 1)

\* for name in names.iter() { env.remove(name) }
RECURSIVE env_remove_all(_, _, _)
env_remove_all(env, names, i) ==
    IF i > Len(names) THEN env
    ELSE env_remove_all(MapRemove(env, names[i]), names, i + 1)

\* the end of a binder form: `env.remove(..)` of the names it introduced,
\* then `ret`.  Nothing runs after a body that never returned.
leave_scope(ret, names, env_in) ==
    IF ret.res \notin {"Ok", "Err"} THEN ret
    ELSE LET env_out == env_remove_all(ret.st.env, names, 1) IN
         [ret EXCEPT !.st.env = env_out,
                     !.st.log = Append(ret.st.log,
                         [names |-> names, env_in |-> env_in, env_out |-> env_out])]

\* The `?` operator: an outcome other than Ok ends the enclosing call with
\* that outcome, an Ok is handed on to the rest of the arm, K.
Try(result, K(_)) ==
    CHOOSE y \in {IF r.res # "Ok" THEN r ELSE K(r) : r \in {result}} : TRUE

RECURSIVE type_check_(_, _)
RECURSIVE check_all(_, _, _, _)

\* for arg in args { arg_tys.push(type_check_(..)?) }
check_all(st, args, i, arg_tys) ==
    IF i > Len(args) THEN TcOk(arg_tys, st)
    ELSE Try(type_check_(st, args[i]), LAMBDA r :
         check_all(r.st, args, i + 1, Append(arg_tys, r.ty)))

\* Not, Neg, FNeg: check e, unify(expected, e_ty), the result is expected
check_unop(st, e, expected) ==
    Try(type_check_(st, e), LAMBDA r :
    Try(tc_unify(r.st, expected, r.ty), LAMBDA u :
    TcOk(expected, u.st)))

\* Add, Sub, FAdd, ..: check e1, e2, unify(expected, e1_ty), (expected, e2_ty)
check_binop(st, e1, e2, expected) ==
    Try(type_check_(st, e1), LAMBDA r1 :
    Try(type_check_(r1.st, e2), LAMBDA r2 :
    Try(tc_unify(r2.st, expected, r1.ty), LAMBDA u1 :
    Try(tc_unify(u1.st, expected, r2.ty), LAMBDA u2 :
    TcOk(expected, u2.st)))))

\* Eq, Le
check_cmp(st, e1, e2) ==
    Try(type_check_(st, e1), LAMBDA r1 :
    Try(type_check_(r1.st, e2), LAMBDA r2 :
    Try(tc_unify(r2.st, r1.ty, r2.ty), LAMBDA u :
    TcOk(Type_Bool, u.st))))

check_if(st, e1, e2, e3) ==
    Try(type_check_(st, e1), LAMBDA r1 :
    Try(type_check_(r1.st, e2), LAMBDA r2 :
    Try(type_check_(r2.st, e3), LAMBDA r3 :
    Try(tc_unify(r3.st, r1.ty, Type_Bool), LAMBDA u1 :
    Try(tc_unify(u1.st, r2.ty, r3.ty), LAMBDA u2 :
    TcOk(r2.ty, u2.st))))))

check_let(st, id, rhs, body) ==
    LET bndr_type == new_tyvar(st.tyvar_cnt) IN
    Try(type_check_([st EXCEPT !.tyvar_cnt = bndr_type.cnt], rhs), LAMBDA r :
    Try(tc_unify(r.st, bndr_type.ty, r.ty), LAMBDA u :
    leave_scope(
        type_check_([u.st EXCEPT !.env = MapInsert(u.st.env, id, bndr_type.ty)],
                    body),
        <<id>>, st.env)))

check_var(st, var) ==
    IF MapGet(st.env, var) # None
    THEN TcOk(MapGet(st.env, var), st)
    ELSE TcErr(UnboundVar(var), st)

\* the environment in which the body of `let rec` is checked, given the one
\* in which its right-hand side was: the code leaves the parameters in
let_rec_body_env(env, args) == env

check_let_rec(st, name, args, rhs, body) ==
    LET arg_tys == new_tyvars(st.tyvar_cnt, Len(args))
        rhs_ty == new_tyvar(st.tyvar_cnt + Len(args))
        fun_ty == Type_Fun(arg_tys, rhs_ty.ty)
        env1 == env_insert_all(MapInsert(st.env, name, fun_ty), args, arg_tys, 1)
    IN
    Try(type_check_([st EXCEPT !.tyvar_cnt = rhs_ty.cnt, !.env = env1], rhs),
        LAMBDA r :
    Try(tc_unify(r.st, rhs_ty.ty, r.ty), LAMBDA u :
    leave_scope(
        type_check_([u.st EXCEPT !.env = let_rec_body_env(u.st.env, args)], body),
        <<name>> \o args, st.env)))

check_app(st, fun, args) ==
    LET ret_ty == new_tyvar(st.tyvar_cnt) IN
    Try(check_all([st EXCEPT !.tyvar_cnt = ret_ty.cnt], args, 1, <<>>), LAMBDA rs :
    Try(type_check_(rs.st, fun), LAMBDA rf :
    Try(tc_unify(rf.st, Type_Fun(rs.ty, ret_ty.ty), rf.ty), LAMBDA u :
    TcOk(ret_ty.ty, u.st))))

check_tuple(st, args) ==
    Try(check_all(st, args, 1, <<>>), LAMBDA rs :
    TcOk(Type_Tuple(rs.ty), rs.st))

check_let_tuple(st, bndrs, rhs, body) ==
    LET bndr_tys == new_tyvars(st.tyvar_cnt, Len(bndrs))
        tuple_ty == Type_Tuple(bndr_tys)
    IN
    Try(type_check_([st EXCEPT !.tyvar_cnt = st.tyvar_cnt + Len(bndrs)], rhs),
        LAMBDA r :
    Try(tc_unify(r.st, r.ty, tuple_ty), LAMBDA u :
    leave_scope(
        type_check_([u.st EXCEPT !.env = env_insert_all(u.st.env, bndrs, bndr_tys, 1)],
                    body),
        bndrs, st.env)))

check_array(st, e1, e2) ==
    Try(type_check_(st, e1), LAMBDA r1 :
    Try(tc_unify(r1.st, r1.ty, Type_Int), LAMBDA u :
    Try(type_check_(u.st, e2), LAMBDA r2 :
    TcOk(Type_Array(r2.ty), r2.st))))

\* Get, and Put up to its index: the element variable of the array
check_get(st, e1, e2) ==
    LET array_elem_ty == new_tyvar(st.tyvar_cnt)
        array_ty == Type_Array(array_elem_ty.ty)
    IN
    Try(type_check_([st EXCEPT !.tyvar_cnt = array_elem_ty.cnt], e1), LAMBDA r1 :
    Try(tc_unify(r1.st, r1.ty, array_ty), LAMBDA u1 :
    Try(type_check_(u1.st, e2), LAMBDA r2 :
    Try(tc_unify(r2.st, r2.ty, Type_Int), LAMBDA u2 :
    TcOk(array_elem_ty.ty, u2.st)))))

check_put(st, e1, e2, e3) ==
    Try(check_get(st, e1, e2), LAMBDA g :
    Try(type_check_(g.st, e3), LAMBDA r3 :
    Try(tc_unify(r3.st, r3.ty, g.ty), LAMBDA u3 :
    TcOk(Type_Unit, u3.st))))

type_check_(st, expr) ==
    CASE expr.tag = "Unit" -> TcOk(Type_Unit, st)
      [] expr.tag = "Bool" -> TcOk(Type_Bool, st)
      [] expr.tag = "Int" -> TcOk(Type_Int, st)
      [] expr.tag = "Float" -> TcOk(Type_Float, st)
      [] expr.tag = "Not" -> check_unop(st, expr.e, Type_Bool)
      [] expr.tag = "Neg" -> check_unop(st, expr.e, Type_Int)
      [] expr.tag = "Add" -> check_binop(st, expr.e1, expr.e2, Type_Int)
      [] expr.tag = "FNeg" -> check_unop(st, expr.e, Type_Float)
      [] expr.tag = "FAdd" -> check_binop(st, expr.e1, expr.e2, Type_Float)
      [] expr.tag = "Eq" -> check_cmp(st, expr.e1, expr.e2)
      [] expr.tag = "If" -> check_if(st, expr.e1, expr.e2, expr.e3)
      [] expr.tag = "Let" -> check_let(st, expr.id, expr.rhs, expr.body)
      [] expr.tag = "Var" -> check_var(st, expr.var)
      [] expr.tag = "LetRec" ->
            check_let_rec(st, expr.name, expr.args, expr.rhs, expr.body)
      [] expr.tag = "App" -> check_app(st, expr.fun, expr.args)
      [] expr.tag = "Tuple" -> check_tuple(st, expr.args)
      [] expr.tag = "LetTuple" ->
            check_let_tuple(st, expr.bndrs, expr.rhs, expr.body)
      [] expr.tag = "Array" -> check_array(st, expr.e1, expr.e2)
      [] expr.tag = "Get" -> check_get(st, expr.e1, expr.e2)
      [] expr.tag = "Put" -> check_put(st, expr.e1, expr.e2, expr.e3)

\* type_check: a fresh counter, environment and substitution per program
type_check(expr) ==
    type_check_([tyvar_cnt |-> 0, substs |-> EmptyMap, env |-> mk_type_env,
                 log |-> <<>>], expr)

(***************************************************************************)
(* SpecTc: type_check of one program of a bounded family.                  *)
(***************************************************************************)
Names == {"x", "f"}
Atoms == {Expr_Int, Expr_Bool} \cup {Expr_Var(n) : n \in Names}
Conds == {Expr_Bool, Expr_Var("x")}
Ops(A) ==
    {Expr_Not(a) : a \in A} \cup {Expr_Neg(a) : a \in A}
    \cup {Expr_FNeg(a) : a \in A}
    \cup {Expr_Add(a, b) : a, b \in A}
    \cup {Expr_FAdd(a, b) : a, b \in A}
    \cup {Expr_Eq(a, b) : a, b \in A}
    \cup {Expr_Array(a, b) : a, b \in A}
    \cup {Expr_Get(a, b) : a, b \in A}
    \cup {Expr_Tuple(<<a, b>>) : a, b \in A}
    \cup {Expr_App(a, <<b>>) : a \in A \cup {Expr_Var("print_int")}, b \in A}
    \cup {Expr_If(c, a, b) : c \in Conds, a, b \in A}
    \cup {Expr_Put(a, Expr_Int, b) : a, b \in A}
Binders(N, R, B) ==
    {Expr_Let(n, r, b) : n \in N, r \in R, b \in B}
    \cup {Expr_LetRec(n, <<m>>, r, b) : n \in N, m \in Names, r \in R, b \in B}
    \cup {Expr_LetTuple(<<n, m>>, r, b) : n \in N, m \in Names, r \in R, b \in B}
InnerRhs == {Expr_Int, Expr_Bool, Expr_Tuple(<<Expr_Int, Expr_Bool>>)}
Inner == Binders(Names \cup {"print_int"}, InnerRhs, {Expr_Int, Expr_Var("x")})
After == {Expr_Tuple(<<i, Expr_Var(n)>>) : i \in Inner, n \in Names \cup {"print_int"}}
Programs ==
    {Expr_Unit, Expr_Float} \cup Atoms \cup Ops(Atoms)
    \cup Binders(Names, Atoms \cup Ops(Atoms), Atoms)
    \cup Binders(Names, InnerRhs, Inner \cup After)
    \cup After

InitTc ==
    /\ IdleUnify /\ IdleVar /\ IdleDriver
    /\ program \in Programs
    /\ tc = None

TypeCheck ==
    /\ tc = None
    /\ tc' = type_check(program)
    /\ UNCHANGED program
    /\ UNCHANGED <<unify_vars, var_vars, driver_vars>>

NextTc == TypeCheck

SpecTc == InitTc /\ [][NextTc]_vars

(***************************************************************************)
(* var.rs: Var and its four variants, each a struct carrying a Uniq.       *)
(***************************************************************************)
VarNames == {"a", "print_int"}
CompilerPhase == {"Parser", "TyChecker", "KNormal", "ANormal", "ClosureConvert"}
Uniq == 1 .. MaxUniq

new_user(name, uniq) == [variant |-> "User", var |-> [name |-> name, uniq |-> uniq]]
new_generated(phase, uniq) ==
    [variant |-> "Generated", var |-> [phase |-> phase, uniq |-> uniq]]
new_builtin(name, uniq) ==
    [variant |-> "Builtin", var |-> [name |-> name, uniq |-> uniq]]
\* var.rs has no constructor for Var::External; this is the design's
new_external(name, uniq) ==
    [variant |-> "External", var |-> [name |-> name, uniq |-> uniq]]

\* UserVar / GeneratedVar / BuiltinVar / ExternalVar :: get_unique
get_unique(var) == var.uniq

\* Var::get_uniq: dispatch on the variant
get_uniq(v) ==
    CASE v.variant = "User" -> get_unique(v.var)
      [] v.variant = "Generated" -> get_unique(v.var)
      [] v.variant = "Builtin" -> get_unique(v.var)
      [] v.variant = "External" -> get_unique(v.var)

\* equality as #[derive(PartialEq)] on Var would make it: variant and fields
Var_eq_derived(a, b) == a = b

\* impl PartialEq for Var
Var_eq(a, b) == get_uniq(a) = get_uniq(b)

(***************************************************************************)
(* Hashing: what a value writes to the Hasher, as a sequence of writes.    *)
(***************************************************************************)
\* #[derive(Hash)] on Uniq(NonZeroU32): one write_u32
Uniq_hash(uniq) == <<[write_u32 |-> uniq]>>
\* Hash for str (behind Rc<str>): the bytes, then the byte 0xff
str_hash(name) == <<[write |-> name], [write_u8 |-> 255]>>
\* impl Hash for UserVar, impl Hash for GeneratedVar: the Uniq alone
UserVar_hash(var) == Uniq_hash(var.uniq)
GeneratedVar_hash(var) == Uniq_hash(var.uniq)
\* #[derive(Hash)] on BuiltinVar and ExternalVar: every field, in order
BuiltinVar_hash(var) == str_hash(var.name) \o Uniq_hash(var.uniq)
ExternalVar_hash(var) == str_hash(var.name) \o Uniq_hash(var.uniq)
\* #[derive(Hash)] on the enum Var: the discriminant, then the variant's value
Var_hash(v) ==
    CASE v.variant = "User" -> <<[discriminant |-> 0]>> \o UserVar_hash(v.var)
      [] v.variant = "Generated" -> <<[discriminant |-> 1]>> \o GeneratedVar_hash(v.var)
      [] v.variant = "Builtin" -> <<[discriminant |-> 2]>> \o BuiltinVar_hash(v.var)
      [] v.variant = "External" -> <<[discriminant |-> 3]>> \o ExternalVar_hash(v.var)

(***************************************************************************)
(* SpecVar: two variables are constructed, then compared and hashed (as a  *)
(* HashMap keyed by Var does on a lookup).                                 *)
(***************************************************************************)
InitVar == IdleUnify /\ IdleTc /\ IdleVar /\ IdleDriver

SetSlot(slot, v) ==
    /\ v1' = IF slot = 1 THEN v ELSE v1
    /\ v2' = IF slot = 2 THEN v ELSE v2
    /\ cmp' = None
    /\ UNCHANGED <<unify_vars, tc_vars, driver_vars>>

NewUser == \E slot \in 1 .. 2, name \in VarNames, uniq \in Uniq :
    SetSlot(slot, new_user(name, uniq))
NewGenerated == \E slot \in 1 .. 2, phase \in CompilerPhase, uniq \in Uniq :
    SetSlot(slot, new_generated(phase, uniq))
NewBuiltin == \E slot \in 1 .. 2, name \in VarNames, uniq \in Uniq :
    SetSlot(slot, new_builtin(name, uniq))
NewExternal == \E slot \in 1 .. 2, name \in VarNames, uniq \in Uniq :
    SetSlot(slot, new_external(name, uniq))

CompareAndHash ==
    /\ v1 # None /\ v2 # None /\ cmp = None
    /\ cmp' = [eq |-> Var_eq(v1, v2), h1 |-> Var_hash(v1), h2 |-> Var_hash(v2)]
    /\ UNCHANGED <<v1, v2>>
    /\ UNCHANGED <<unify_vars, tc_vars, driver_vars>>

NextVar == NewUser \/ NewGenerated \/ NewBuiltin \/ NewExternal \/ CompareAndHash

SpecVar == InitVar /\ [][NextVar]_vars

(***************************************************************************)
(* main.rs: main, repl, do_file and do_expr.  The stages themselves        *)
(* (tokenize, parse, type_check_pgm, knormal, anormal, closure_convert)    *)
(* are calls whose outcome the driver only matches on: the three with a    *)
(* Result return Ok or Err, the other three return a value.                *)
(***************************************************************************)
StageOrder ==
    <<"tokenize", "parse", "type_check_pgm", "knormal", "anormal", "closure_convert">>
Fallible == {"tokenize", "parse", "type_check_pgm"}
StageIndex(stage) == CHOOSE i \in 1 .. Len(StageOrder) : StageOrder[i] = stage
ErrorLine(stage) ==
    CASE stage = "tokenize" -> "Lexer error"
      [] stage = "parse" -> "Parser error"
      [] stage = "type_check_pgm" -> "Type error"

\* a do_expr whose error arms print and fall through instead of returning
after_stage_no_return(stage, ok) ==
    IF StageIndex(stage) < Len(StageOrder)
    THEN StageOrder[StageIndex(stage) + 1]
    ELSE "print"

\* do_expr: where control goes after a stage: on, or `return 1`
after_stage(stage, ok) ==
    IF ~ok THEN "return"
    ELSE IF StageIndex(stage) < Len(StageOrder)
         THEN StageOrder[StageIndex(stage) + 1]
         ELSE "print"

\* the exit status of a process whose main thread panicked
PanicExit == 101

InitDriver ==
    /\ IdleUnify /\ IdleTc /\ IdleVar
    /\ argc \in 1 .. MaxArgc
    /\ pc = "main" /\ ran = <<>> /\ failed = "none"
    /\ out = <<>> /\ inputs = 0 /\ retval = "none" /\ exit_code = "Running"

NotDriver == UNCHANGED <<unify_vars, tc_vars, var_vars>>

\* main: match args.as_slice()
Main ==
    /\ pc = "main"
    /\ IF argc = 1 THEN /\ pc' = "repl"
                        /\ UNCHANGED <<out, exit_code>>
       ELSE IF argc = 2 THEN /\ pc' = "do_file"
                             /\ UNCHANGED <<out, exit_code>>
       ELSE /\ out' = Append(out, "What do you mean?")
            /\ exit_code' = 1
            /\ pc' = "exited"
    /\ UNCHANGED <<argc, ran, failed, inputs, retval>>
    /\ NotDriver

\* do_file: std::fs::read_to_string(file).unwrap(), then do_expr
DoFile ==
    /\ pc = "do_file"
    /\ \E read_ok \in BOOLEAN :
        IF read_ok
        THEN /\ pc' = StageOrder[1]
             /\ inputs' = inputs + 1
             /\ UNCHANGED <<failed, exit_code>>
        ELSE /\ pc' = "exited"
             /\ failed' = "read_to_string"
             /\ exit_code' = PanicExit
             /\ UNCHANGED inputs
    /\ UNCHANGED <<argc, ran, out, retval>>
    /\ NotDriver

\* repl: one rl.readline(">>> ") and the match on its result
Repl ==
    /\ pc = "repl"
    /\ \E line \in {"Ok", "Interrupted", "Eof", "Io"} :
        CASE line = "Ok" ->
                /\ inputs < MaxInputs
                /\ pc' = StageOrder[1]
                /\ inputs' = inputs + 1
                /\ ran' = <<>> /\ failed' = "none" /\ retval' = "none"
                /\ UNCHANGED <<out, exit_code>>
          [] line \in {"Interrupted", "Eof"} ->
                /\ pc' = "exited" /\ exit_code' = 0
                /\ UNCHANGED <<inputs, ran, failed, retval, out>>
          [] line = "Io" ->
                /\ out' = out \o <<"Error while reading line", "Aborting.">>
                /\ pc' = "exited" /\ exit_code' = 0
                /\ UNCHANGED <<inputs, ran, failed, retval>>
    /\ UNCHANGED argc
    /\ NotDriver

\* do_expr: one stage is called and its result matched
Stage(stage) ==
    /\ pc = stage
    /\ ran' = Append(ran, stage)
    /\ \E ok \in IF stage \in Fallible THEN BOOLEAN ELSE {TRUE} :
        /\ pc' = after_stage(stage, ok)
        /\ IF ok THEN UNCHANGED <<out, failed, retval>>
           ELSE /\ out' = Append(out, ErrorLine(stage))
                /\ failed' = stage
                /\ retval' = 1
    /\ UNCHANGED <<argc, inputs, exit_code>>
    /\ NotDriver

\* do_expr: println!("{}", expr.pprint().pretty(80)); 0
PrintExpr ==
    /\ pc = "print"
    /\ out' = Append(out, "expr")
    /\ retval' = IF retval = "none" THEN 0 ELSE retval
    /\ pc' = "return"
    /\ UNCHANGED <<argc, ran, failed, inputs, exit_code>>
    /\ NotDriver

\* do_expr has returned: exit(do_file(file)) in main, or the repl's next turn
Return ==
    /\ pc = "return"
    /\ IF argc = 2
       THEN pc' = "exited" /\ exit_code' = retval
       ELSE pc' = "repl" /\ UNCHANGED exit_code
    /\ UNCHANGED <<argc, ran, failed, out, inputs, retval>>
    /\ NotDriver

NextDriver ==
    \/ Main
    \/ DoFile
    \/ Repl
    \/ \E i \in 1 .. Len(StageOrder) : Stage(StageOrder[i])
    \/ PrintExpr
    \/ Return

SpecDriver == InitDriver /\ [][NextDriver]_vars

(***************************************************************************)
(* Resolving a type through the substitution: the normal form of the type  *)
(* and, below its head, of every component.  A walk that meets a cycle     *)
(* (of Var links, or through a constructor) has no result.                 *)
(***************************************************************************)
RECURSIVE Resolve(_, _, _)
ResolveAll(s, tys, fuel) == [i \in 1 .. Len(tys) |-> Resolve(s, tys[i], fuel)]
AnyDiverges(tys) == \E i \in 1 .. Len(tys) : tys[i] = Diverges
Resolve(s, ty, fuel) ==
    LET n == norm_ty(s, ty) IN
    IF n = Diverges \/ fuel = 0 THEN Diverges
    ELSE IF n.tag = "Fun"
         THEN LET as == ResolveAll(s, n.args, fuel - 1)
                  r == Resolve(s, n.ret, fuel - 1)
              IN IF AnyDiverges(as) \/ r = Diverges THEN Diverges
                 ELSE Type_Fun(as, r)
    ELSE IF n.tag = "Tuple"
         THEN LET es == ResolveAll(s, n.elems, fuel - 1)
              IN IF AnyDiverges(es) THEN Diverges ELSE Type_Tuple(es)
    ELSE IF n.tag = "Array"
         THEN LET e == Resolve(s, n.elem, fuel - 1)
              IN IF e = Diverges THEN Diverges ELSE Type_Array(e)
    ELSE n

\* the two types have normal forms under s, and these are structurally equal
NormEq(s, ty1, ty2) ==
    LET a == Resolve(s, ty1, MaxRecursion)
        b == Resolve(s, ty2, MaxRecursion)
    IN a # Diverges /\ b # Diverges /\ a = b

(***************************************************************************)
(* C1. Idempotence of unify: whenever a unify call on a substitution       *)
(* reached from the empty one returns Ok, the normal forms of its two      *)
(* arguments under the resulting substitution are structurally equal.      *)
(***************************************************************************)
C1_Idempotence ==
    call.res = "Ok" => NormEq(substs, call.ty1, call.ty2)

(***************************************************************************)
(* C2. Chain resolution: when unify(t, u) returned Ok and the next call    *)
(* unify(u, v) returns Ok as well, t and v have equal normal forms.        *)
(***************************************************************************)
C2_ChainResolution ==
    [][(/\ call.res = "Ok"
        /\ call'.res = "Ok"
        /\ tyvar_cnt' = tyvar_cnt
        /\ call'.ty1 = call.ty2)
       => NormEq(substs', call.ty1, call'.ty2)]_vars

(***************************************************************************)
(* C6. Arity rejection: a unify call on two Fun types with argument lists  *)
(* of different lengths, or on two Tuple types with different numbers of   *)
(* elements, returns UnifyError carrying the two normalized types, under   *)
(* every substitution.                                                     *)
(***************************************************************************)
ArityMismatchCall ==
    /\ call.res # "None"
    /\ \/ /\ call.ty1.tag = "Fun" /\ call.ty2.tag = "Fun"
          /\ Len(call.ty1.args) # Len(call.ty2.args)
       \/ /\ call.ty1.tag = "Tuple" /\ call.ty2.tag = "Tuple"
          /\ Len(call.ty1.elems) # Len(call.ty2.elems)

C6_ArityRejection ==
    ArityMismatchCall =>
        /\ call.res = "Err"
        /\ call.err = [tag |-> "UnifyError", ty1 |-> call.n1, ty2 |-> call.n2]
        /\ call.n1 = call.ty1 /\ call.n2 = call.ty2

\* a Fun/Fun call of different arities rejected under a non-empty substitution
C6_Witness ==
    /\ ArityMismatchCall
    /\ call.ty1.tag = "Fun"
    /\ call.ty1.args[1].tag = "Var"
    /\ call.res = "Err"
    /\ DOMAIN substs # {}

(***************************************************************************)
(* C7. Symmetric Var binding: a unify call whose one argument is a type    *)
(* variable unbound on entry and whose other argument is a non-variable    *)
(* type T returns Ok and leaves the variable's normal form equal to T, in  *)
(* either argument order.                                                  *)
(***************************************************************************)
UnboundVarArg(ty, n) == ty.tag = "Var" /\ n = ty

C7_SymmetricVarBinding ==
    /\ (call.res # "None" /\ UnboundVarArg(call.ty1, call.n1) /\ call.ty2.tag # "Var")
          => (call.res = "Ok" /\ norm_ty(substs, call.ty1) = call.ty2)
    /\ (call.res # "None" /\ UnboundVarArg(call.ty2, call.n2) /\ call.ty1.tag # "Var")
          => (call.res = "Ok" /\ norm_ty(substs, call.ty2) = call.ty1)

\* the variable on the right, a Fun type on the left, other bindings present
C7_Witness ==
    /\ call.res = "Ok"
    /\ UnboundVarArg(call.ty2, call.n2)
    /\ call.ty1.tag = "Fun"
    /\ norm_ty(substs, call.ty2) = call.ty1
    /\ Cardinality(DOMAIN substs) >= 2

(***************************************************************************)
(* C3. Environment discipline: when a let, let rec or tuple let            *)
(* introduces a name that the enclosing scope already binds, then on       *)
(* leaving the form the environment maps the name to the outer binding's   *)
(* type again.                                                             *)
(***************************************************************************)
RestoresOuter(entry) ==
    \A i \in 1 .. Len(entry.names) :
        MapGet(entry.env_in, entry.names[i]) # None
            => MapGet(entry.env_out, entry.names[i])
                   = MapGet(entry.env_in, entry.names[i])

C3_EnvDiscipline ==
    tc # None =>
        \A k \in 1 .. Len(tc.st.log) : RestoresOuter(tc.st.log[k])

(***************************************************************************)
(* C10. Normalization always terminates: no substitution reached from the  *)
(* empty one by unify calls, type inference's included, has a cycle of     *)
(* Var links, so norm_ty and deref_tyvar return for every type variable    *)
(* and no unify call is caught in its opening normalization.               *)
(***************************************************************************)
WalksTerminate(s) ==
    \A a \in DOMAIN s :
        /\ norm_ty(s, Type_Var(a)) # Diverges
        /\ deref_tyvar(s, a) # Diverges
        /\ s[a] # Type_Var(a)

C10_NormalizationTerminates ==
    /\ WalksTerminate(substs)
    /\ call.res # "Hang"
    /\ tc # None => (WalksTerminate(tc.st.substs) /\ tc.res # "Hang")

(***************************************************************************)
(* C4. Driver exit status: with one filename argument the process exits    *)
(* with 0 when the whole pipeline succeeded and with 1 on any error        *)
(* (lexer, parser, type, or I/O when reading the file); with more than one *)
(* argument it exits with 1.                                               *)
(***************************************************************************)
C4_ExitStatus ==
    (pc = "exited" /\ argc >= 2) =>
        exit_code = IF argc = 2 /\ failed = "none" /\ ran = StageOrder
                    THEN 0 ELSE 1

(***************************************************************************)
(* C5. Pass ordering: the stages of an input run in the order tokenize,    *)
(* parse, type_check_pgm, knormal, anormal, closure_convert, each starting *)
(* only after the previous ones succeeded; the first failing stage ends    *)
(* the input with its error line as the only output; the converted         *)
(* expression is printed only after all six stages, and nothing is printed *)
(* for an input while its stages run.                                      *)
(***************************************************************************)
Stages == {StageOrder[i] : i \in 1 .. Len(StageOrder)}

C5_PassOrdering ==
    /\ Len(ran) <= Len(StageOrder)
    /\ ran = SubSeq(StageOrder, 1, Len(ran))
    /\ pc \in Stages =>
          /\ failed = "none"
          /\ ran = SubSeq(StageOrder, 1, StageIndex(pc) - 1)
    /\ pc \in Stages \cup {"print"} => Len(out) = inputs - 1
    /\ pc = "print" => (ran = StageOrder /\ failed = "none")
    /\ failed \in Stages =>
          /\ pc \notin Stages \cup {"print"}
          /\ ran # <<>> /\ ran[Len(ran)] = failed
          /\ Len(out) >= inputs /\ out[inputs] = ErrorLine(failed)
    /\ (inputs >= 1 /\ Len(out) >= inputs /\ out[inputs] = "expr") =>
          (ran = StageOrder /\ failed = "none")

\* the repl's second input fails in type inference after a first one printed
C5_Witness ==
    /\ pc = "return"
    /\ failed = "type_check_pgm"
    /\ ran = SubSeq(StageOrder, 1, 3)
    /\ inputs = 2
    /\ out = <<"expr", "Type error">>

(***************************************************************************)
(* C8. Variable equality is tag equality: v1 == v2 holds exactly when the  *)
(* unique tags of the two variables are equal, whatever their variants,    *)
(* names and phases.                                                       *)
(***************************************************************************)
C8_EqIffSameTag ==
    cmp # None => (cmp.eq <=> (v1.var.uniq = v2.var.uniq))

\* two variables of different variants and names, equal by their tag
C8_Witness ==
    /\ cmp # None
    /\ cmp.eq
    /\ v1.variant = "User" /\ v2.variant = "Builtin"
    /\ v1.var.name # v2.var.name

(***************************************************************************)
(* C9. Variable hashing reduces to the tag: two variables that compare     *)
(* equal feed the same data to the hasher, for every variant and name.     *)
(***************************************************************************)
C9_HashByTag ==
    (cmp # None /\ cmp.eq) => cmp.h1 = cmp.h2

(***************************************************************************)
(* C11. Scope of `let rec` parameters: in `let rec f(x..) = rhs in body`   *)
(* the parameters are in the environment only while rhs is checked; a body *)
(* that refers to a parameter name with no other binding (not the          *)
(* function's name, not an outer binding) yields UnboundVar(name).         *)
(***************************************************************************)
\* the names of the program's parameters that nothing else binds
UnboundParams(expr) ==
    {expr.args[i] : i \in 1 .. Len(expr.args)}
        \ ({expr.name} \cup DOMAIN mk_type_env)

\* the program is `let rec f(x..) = rhs in p`, p a parameter nothing else
\* binds, and the checks of rhs and of rhs against its variable succeed
BodyRefersToParam ==
    /\ program.tag = "LetRec"
    /\ program.body.tag = "Var"
    /\ program.body.var \in UnboundParams(program)
    /\ type_check(Expr_LetRec(program.name, program.args, program.rhs,
                              Expr_Unit)).res = "Ok"

C11_LetRecParamScope ==
    (tc # None /\ BodyRefersToParam)
        => /\ tc.res = "Err"
           /\ tc.err = UnboundVar(program.body.var)

====
